---- MODULE Spec2Model ----
(***************************************************************************)
(* Model of attack_lab_stats.py: a top-level script that fetches the       *)
(* Attack Lab scoreboard page, reads its table into a dataframe,           *)
(* normalises the phase cells, writes a text report and renders two        *)
(* charts.  The script is one linear sequence of statements; pc is the     *)
(* position in it, and every exception or exit() ends the run.             *)
(*                                                                         *)
(* Text is modelled as a sequence of one-character strings so that the     *)
(* conversions the script relies on (number inference of read_html,        *)
(* astype(str), str.replace(".0", ""), astype(float)) are computed.        *)
(* Fractional numbers are held in hundredths (12.75 is 1275).              *)
(* str.replace is the literal replacement (pandas >= 2.0, regex=False).    *)
(***************************************************************************)
EXTENDS Integers, Sequences, FiniteSets, TLC

VARIABLES pc, url, html, scoreboard_df, date_and_time, stats, files,
          hist, phases_count, phases_df, error

vars == <<pc, url, html, scoreboard_df, date_and_time, stats, files,
          hist, phases_count, phases_df, error>>

(***************************************************************************)
(* Bounds of the model.                                                    *)
(***************************************************************************)
MaxRows == 3        \* rows of the scoreboard table (Spec)
MaxColLen == 3      \* rows of the one-column scoreboards (SpecColumn)
MaxTables == 2      \* tables of the page that match "#"

(***************************************************************************)
(* Text.                                                                   *)
(***************************************************************************)
DigitChar == <<"0", "1", "2", "3", "4", "5", "6", "7", "8", "9">>

IsDigit(c) == \E d \in 1..10 : DigitChar[d] = c

DigitVal(c) == (CHOOSE d \in 1..10 : DigitChar[d] = c) - 1

TooLate == <<"T", "o", "o", " ", "L", "a", "t", "e">>
Invalid == <<"I", "n", "v", "a", "l", "i", "d">>
Penalized == <<"P", "e", "n", "a", "l", "i", "z", "e", "d">>
Zero == <<"0">>

\* phases = ["Phase 1", ..., "Phase 5"]
phases == 1..5

\* points_per_phase: the full-credit label of each phase, as text
points_per_phase ==
    << <<"1", "5">>, <<"2", "5">>, <<"2", "5">>, <<"3", "5">>, <<"2", "0">> >>

\* float_penalized_points_per_phase, in hundredths
float_penalized_points_per_phase == <<1275, 2125, 2125, 2975, 1700>>

\* str_penalized_points_per_phase
str_penalized_points_per_phase ==
    << <<"1", "2", ".", "7", "5">>, <<"2", "1", ".", "2", "5">>,
       <<"2", "1", ".", "2", "5">>, <<"2", "9", ".", "7", "5">>, <<"1", "7">> >>

(***************************************************************************)
(* Number inference of pd.read_html: a column whose cells are all integer  *)
(* text is int64, all numeric text float64, anything else stays text.      *)
(***************************************************************************)
IsIntText(s) == Len(s) > 0 /\ \A i \in 1..Len(s) : IsDigit(s[i])

IsFloatText(s) ==
    \E k \in 2..(Len(s) - 1) :
        /\ s[k] = "."
        /\ Len(s) - k <= 2
        /\ \A i \in (1..Len(s)) \ {k} : IsDigit(s[i])

IsNumericText(s) == IsIntText(s) \/ IsFloatText(s)

RECURSIVE IntVal(_)
IntVal(s) ==
    IF s = <<>> THEN 0
    ELSE IntVal(SubSeq(s, 1, Len(s) - 1)) * 10 + DigitVal(s[Len(s)])

\* value of numeric text in hundredths
Hundredths(s) ==
    IF IsIntText(s) THEN IntVal(s) * 100
    ELSE LET k == CHOOSE k \in 2..(Len(s) - 1) : s[k] = "."
             fp == SubSeq(s, k + 1, Len(s))
         IN  IntVal(SubSeq(s, 1, k - 1)) * 100
               + (IF Len(fp) = 1 THEN DigitVal(fp[1]) * 10 ELSE IntVal(fp))

\* dtype of a column of html cell texts
ColumnKind(col) ==
    IF Len(col) = 0 THEN "object"
    ELSE IF \A i \in 1..Len(col) : IsIntText(col[i]) THEN "int64"
    ELSE IF \A i \in 1..Len(col) : IsNumericText(col[i]) THEN "float64"
    ELSE "object"

\* a cell as read: t is its Python type, v its value
ReadCell(kind, s) ==
    IF kind = "int64" THEN [t |-> "int", n |-> IntVal(s), s |-> <<>>]
    ELSE IF kind = "float64" THEN [t |-> "float", n |-> Hundredths(s), s |-> <<>>]
    ELSE [t |-> "str", n |-> 0, s |-> s]

StrCell(s) == [t |-> "str", n |-> 0, s |-> s]

\* pd.read_html(html, match="#")[0].drop(labels=["#", "Date"], axis=1)
read_html(table) ==
    LET scoreKind == ColumnKind([i \in 1..Len(table) |-> table[i].Score])
        phaseKind(p) == ColumnKind([i \in 1..Len(table) |-> table[i].Phase[p]])
    IN  [i \in 1..Len(table) |->
            [Score |-> ReadCell(scoreKind, table[i].Score),
             Phase |-> [p \in phases |-> ReadCell(phaseKind(p), table[i].Phase[p])]]]

(***************************************************************************)
(* Normalisation (lines 70-75).                                            *)
(***************************************************************************)
\* .replace(float_penalized_points_per_phase, "Penalized") on one cell of phase p
ReplaceFloat(cell, p) ==
    IF \/ cell.t = "int" /\ cell.n * 100 = float_penalized_points_per_phase[p]
       \/ cell.t = "float" /\ cell.n = float_penalized_points_per_phase[p]
    THEN StrCell(Penalized)
    ELSE cell

\* faulty variant: the text form of the penalized value is not replaced
ReplaceStrNever(cell, p) == cell

\* .replace(str_penalized_points_per_phase, "Penalized") on one cell of phase p
ReplaceStr(cell, p) ==
    IF cell.t = "str" /\ cell.s = str_penalized_points_per_phase[p]
    THEN StrCell(Penalized)
    ELSE cell

RECURSIVE IntToText(_)
IntToText(n) ==
    IF n < 10 THEN <<DigitChar[n + 1]>>
    ELSE IntToText(n \div 10) \o <<DigitChar[(n % 10) + 1]>>

\* str() of a float held in hundredths: 1500 is "15.0", 1275 is "12.75"
FloatToText(h) ==
    IntToText(h \div 100) \o <<".">> \o
        (IF h % 10 = 0 THEN <<DigitChar[((h % 100) \div 10) + 1]>>
         ELSE <<DigitChar[((h % 100) \div 10) + 1], DigitChar[(h % 10) + 1]>>)

\* .astype(str) on one cell
AsTypeStr(cell) ==
    IF cell.t = "int" THEN IntToText(cell.n)
    ELSE IF cell.t = "float" THEN FloatToText(cell.n)
    ELSE cell.s

\* faulty variant: ".0" is left in the text
StrReplaceNone(s) == s

\* .str.replace(".0", "") on one text: every occurrence, left to right
RECURSIVE StrReplaceDotZero(_)
StrReplaceDotZero(s) ==
    IF Len(s) < 2 THEN s
    ELSE IF s[1] = "." /\ s[2] = "0" THEN StrReplaceDotZero(SubSeq(s, 3, Len(s)))
    ELSE <<s[1]>> \o StrReplaceDotZero(Tail(s))

\* one phase cell through lines 71 and 75
NormalizeCell(cell, p) ==
    StrReplaceDotZero(AsTypeStr(ReplaceStr(ReplaceFloat(cell, p), p)))

\* the dataframe after lines 71-75: every cell is text
Normalize(df) ==
    [i \in 1..Len(df) |->
        [Score |-> StrCell(AsTypeStr(df[i].Score)),
         Phase |-> [p \in phases |-> StrCell(NormalizeCell(df[i].Phase[p], p))]]]

\* scoreboard_df["Score"].astype(float): fails on text that is no number
ScoresNumeric(df) == \A i \in 1..Len(df) : IsNumericText(df[i].Score.s)

CastScore(df) ==
    [i \in 1..Len(df) |->
        [df[i] EXCEPT !.Score = [t |-> "float", n |-> Hundredths(df[i].Score.s), s |-> <<>>]]]

(***************************************************************************)
(* Statistics (lines 97-129).                                              *)
(***************************************************************************)
RECURSIVE SumSeq(_)
SumSeq(s) == IF s = <<>> THEN 0 ELSE s[1] + SumSeq(Tail(s))

\* scoreboard_df[phase].value_counts() looked up at one label (0 when absent)
ValueCount(df, p, label) ==
    Cardinality({i \in 1..Len(df) : df[i].Phase[p].s = label})

\* .value_counts().reindex([points_per_phase[phase], "0", "Penalized", "Too Late", "Invalid"], fill_value=0)
phase_count_ser(df, p) ==
    [full      |-> ValueCount(df, p, points_per_phase[p]),
     zero      |-> ValueCount(df, p, Zero),
     penalized |-> ValueCount(df, p, Penalized),
     late      |-> ValueCount(df, p, TooLate),
     invalid   |-> ValueCount(df, p, Invalid)]

\* the four report lines of one phase (lines 106-110), with the series they come from
PhaseLines(df, p) ==
    LET ser == phase_count_ser(df, p)
    IN  [phase     |-> p,
         ser       |-> ser,
         passed    |-> ser.full + ser.penalized,
         penalized |-> ser.penalized,
         late      |-> ser.late,
         invalid   |-> ser.invalid]

\* len(scoreboard_df[scoreboard_df['Score'] == 0.0].index)
NoPhases(df) == Cardinality({i \in 1..Len(df) : df[i].Score.n = 0})

\* count_df = scoreboard_df[phases].apply(pd.Series.value_counts): its index is
\* the set of texts that occur in some phase column
InCountIndex(df, label) ==
    \E i \in 1..Len(df) : \E p \in phases : df[i].Phase[p].s = label

\* int(count_df.loc[label].sum())
CountTotal(df, label) ==
    SumSeq([p \in phases |-> ValueCount(df, p, label)])

Scores(df) == [i \in 1..Len(df) |-> df[i].Score.n]

SeqMax(s) == CHOOSE x \in {s[i] : i \in 1..Len(s)} : \A i \in 1..Len(s) : s[i] <= x
SeqMin(s) == CHOOSE x \in {s[i] : i \in 1..Len(s)} : \A i \in 1..Len(s) : x <= s[i]

\* lines 124-129.  A float is a record whose nan field tells NaN; the mean is
\* sum/n and the variance (ss - sum*sum/n)/(n-1), held by their exact terms.
Standard(df) ==
    LET s == Scores(df)
        n == Len(s)
    IN  [max      |-> [nan |-> n = 0, v |-> IF n = 0 THEN 0 ELSE SeqMax(s)],
         min      |-> [nan |-> n = 0, v |-> IF n = 0 THEN 0 ELSE SeqMin(s)],
         range    |-> [nan |-> n = 0, v |-> IF n = 0 THEN 0 ELSE SeqMax(s) - SeqMin(s)],
         mean     |-> [nan |-> n = 0, sum |-> SumSeq(s), n |-> n],
         variance |-> [nan |-> n < 2, ss |-> SumSeq([i \in 1..n |-> s[i] * s[i]]),
                       sum |-> SumSeq(s), n |-> n],
         std      |-> [nan |-> n < 2]]

(***************************************************************************)
(* Charts.                                                                 *)
(***************************************************************************)
BinWidth == 500       \* np.arange(0, 121, 5), in hundredths
ScoreTop == 12000
NumBins == 24

\* counts of sns.histplot(..., bins=np.arange(0, 121, 5)): bin b is
\* [5(b-1), 5b), the last one closed
HistCounts(df) ==
    [b \in 1..NumBins |->
        Cardinality({i \in 1..Len(df) :
            LET x == df[i].Score.n
            IN  \/ x < ScoreTop /\ x \div BinWidth = b - 1
                \/ x = ScoreTop /\ b = NumBins})]

\* line 176: the rows selected as having passed phase p
PassedPhase(row, p) ==
    \/ row.Phase[p].s = points_per_phase[p]
    \/ row.Phase[p].s = str_penalized_points_per_phase[p]

\* scoreboard_df.drop(index=passed_phase_df.index, inplace=True)
DropPassed(df, p) ==
    LET kept(row) == ~PassedPhase(row, p)
    IN  SelectSeq(df, kept)

PassedCount(df, p) == Cardinality({i \in 1..Len(df) : PassedPhase(df[i], p)})

(***************************************************************************)
(* Inputs: the page behind the URL.                                        *)
(***************************************************************************)
HtmlRow(score, c1, c2, c3, c4, c5) == [Score |-> score, Phase |-> <<c1, c2, c3, c4, c5>>]

F(p) == points_per_phase[p]
P(p) == str_penalized_points_per_phase[p]

\* rows of the scoreboard as the page prints them (Score, Phase 1..5)
Entrants ==
    { \* every phase with full credit
      HtmlRow(<<"1", "2", "0">>, F(1), F(2), F(3), F(4), F(5)),
      \* phases 1-3, then a late and an invalid submission
      HtmlRow(<<"6", "5">>, F(1), F(2), F(3), TooLate, Invalid),
      \* no phase
      HtmlRow(Zero, Zero, Zero, Zero, Zero, Zero),
      \* a penalized, a late and an invalid cell
      HtmlRow(<<"6", "1", ".", "2", "5">>, F(1), P(2), F(3), TooLate, Invalid),
      \* penalized credit only
      HtmlRow(<<"1", "2", ".", "7", "5">>, P(1), Zero, Zero, Zero, Zero),
      \* a score cell that is no number
      HtmlRow(<<"-">>, F(1), Zero, Zero, Zero, Zero) }

SeqsUpTo(S, n) == UNION {[1..k -> S] : k \in 0..n}

Tables == SeqsUpTo(Entrants, MaxRows)

\* the texts a cell of phase p can carry
RawCells(p) == {F(p), Zero, P(p), TooLate, Invalid}

\* scoreboards in which one phase column takes every value and the rest is "0"
ColumnTables ==
    {[i \in 1..Len(col) |->
        [Score |-> Zero, Phase |-> [q \in phases |-> IF q = p THEN col[i] ELSE Zero]]] :
     <<p, col>> \in UNION {{<<p, col>> : col \in SeqsUpTo(RawCells(p), MaxColLen)} : p \in phases}}

Updated == {"absent", "malformed", "Thu Nov 30 10:00:00 2023"}

\* a fetched page: whether it carries the title, how many tables match "#",
\* the first of them, and what "updated: (.*) \(updated" captures
Docs(tables) ==
    {[fetched |-> TRUE, title |-> t, matching |-> m,
      table |-> IF m = 0 THEN <<>> ELSE tb, updated |-> u] :
        t \in BOOLEAN, m \in 0..MaxTables, tb \in tables, u \in Updated}

NoDoc == [fetched |-> FALSE, title |-> FALSE, matching |-> 0, table |-> <<>>,
          updated |-> "absent"]

NoStats == [header |-> "", targets |-> 0, phases |-> <<>>, nophases |-> 0,
            totals |-> <<>>, standard |-> <<>>]

(***************************************************************************)
(* The script.                                                             *)
(***************************************************************************)
Init ==
    /\ pc = "check_url"
    /\ url \in {"INSERT URL HERE", "http://systems3.cs.uic.edu:15513/scoreboard"}
    /\ html = NoDoc
    /\ scoreboard_df = <<>>
    /\ date_and_time = ""
    /\ stats = NoStats
    /\ files = {}
    /\ hist = <<>>
    /\ phases_count = <<>>
    /\ phases_df = <<>>
    /\ error = "none"

\* an exception or exit(msg) ends the run
Abort(msg) == pc' = "exit" /\ error' = msg

\* lines 36-37
CheckUrl ==
    /\ pc = "check_url"
    /\ IF url = "INSERT URL HERE"
       THEN Abort("Missing URL")
       ELSE pc' = "fetch" /\ error' = error
    /\ UNCHANGED <<url, html, scoreboard_df, date_and_time, stats, files, hist,
                   phases_count, phases_df>>

\* line 40
Fetch ==
    /\ pc = "fetch"
    /\ \E ok \in BOOLEAN :
        IF ok
        THEN /\ html' \in Docs(Tables)
             /\ pc' = "validate"
             /\ error' = error
        ELSE /\ Abort("URLError")
             /\ html' = html
    /\ UNCHANGED <<url, scoreboard_df, date_and_time, stats, files, hist,
                   phases_count, phases_df>>

\* lines 44-45
Validate ==
    /\ pc = "validate"
    /\ IF html.title
       THEN pc' = "read_html" /\ error' = error
       ELSE Abort("Incorrect URL or the webpage is not available")
    /\ UNCHANGED <<url, html, scoreboard_df, date_and_time, stats, files, hist,
                   phases_count, phases_df>>

\* faulty variant: the extraction refuses a page with more than one matching table
ReadHtmlOnlyOne ==
    /\ pc = "read_html"
    /\ IF html.matching # 1
       THEN Abort("ValueError: No tables found") /\ scoreboard_df' = scoreboard_df
       ELSE /\ scoreboard_df' = read_html(html.table)
            /\ pc' = "normalize"
            /\ error' = error
    /\ UNCHANGED <<url, html, date_and_time, stats, files, hist, phases_count, phases_df>>

\* line 68: read_html raises when no table matches, [0] takes the first match
ReadHtml ==
    /\ pc = "read_html"
    /\ IF html.matching = 0
       THEN Abort("ValueError: No tables found") /\ scoreboard_df' = scoreboard_df
       ELSE /\ scoreboard_df' = read_html(html.table)
            /\ pc' = "normalize"
            /\ error' = error
    /\ UNCHANGED <<url, html, date_and_time, stats, files, hist, phases_count, phases_df>>

\* lines 71-75
NormalizeStep ==
    /\ pc = "normalize"
    /\ scoreboard_df' = Normalize(scoreboard_df)
    /\ pc' = "cast_score"
    /\ UNCHANGED <<url, html, date_and_time, stats, files, hist, phases_count,
                   phases_df, error>>

\* line 80
CastScoreStep ==
    /\ pc = "cast_score"
    /\ IF ScoresNumeric(scoreboard_df)
       THEN /\ scoreboard_df' = CastScore(scoreboard_df)
            /\ pc' = "timestamp"
            /\ error' = error
       ELSE Abort("ValueError: could not convert string to float")
            /\ scoreboard_df' = scoreboard_df
    /\ UNCHANGED <<url, html, date_and_time, stats, files, hist, phases_count, phases_df>>

\* lines 87-91: re.search(...) is None without the marker, and .group(1) raises
Timestamp ==
    /\ pc = "timestamp"
    /\ IF html.updated = "absent"
       THEN Abort("AttributeError: 'NoneType' object has no attribute 'group'")
            /\ date_and_time' = date_and_time
       ELSE IF html.updated = "malformed"
       THEN Abort("ValueError: time data does not match format")
            /\ date_and_time' = date_and_time
       ELSE /\ date_and_time' = html.updated
            /\ pc' = "phase_stats"
            /\ error' = error
    /\ UNCHANGED <<url, html, scoreboard_df, stats, files, hist, phases_count, phases_df>>

\* lines 98-113: the header, the number of targets, the lines of each phase
\* from Phase 5 down to Phase 1, and the targets that passed no phase
PhaseStats ==
    /\ pc = "phase_stats"
    /\ stats' = [stats EXCEPT
            !.header = date_and_time,
            !.targets = Len(scoreboard_df),
            !.phases = [k \in 1..5 |-> PhaseLines(scoreboard_df, 6 - k)],
            !.nophases = NoPhases(scoreboard_df)]
    /\ pc' = "totals"
    /\ UNCHANGED <<url, html, scoreboard_df, date_and_time, files, hist, phases_count,
                   phases_df, error>>

\* lines 116-121: count_df.loc[label] raises KeyError for a label that no
\* phase cell carries
Totals ==
    /\ pc = "totals"
    /\ IF \A label \in {Penalized, TooLate, Invalid} : InCountIndex(scoreboard_df, label)
       THEN /\ stats' = [stats EXCEPT !.totals =
                            <<CountTotal(scoreboard_df, Penalized),
                              CountTotal(scoreboard_df, TooLate),
                              CountTotal(scoreboard_df, Invalid)>>]
            /\ pc' = "standard"
            /\ error' = error
       ELSE Abort("KeyError") /\ stats' = stats
    /\ UNCHANGED <<url, html, scoreboard_df, date_and_time, files, hist, phases_count,
                   phases_df>>

\* lines 124-129
StandardStats ==
    /\ pc = "standard"
    /\ stats' = [stats EXCEPT !.standard = <<Standard(scoreboard_df)>>]
    /\ pc' = "write_report"
    /\ UNCHANGED <<url, html, scoreboard_df, date_and_time, files, hist, phases_count,
                   phases_df, error>>

\* lines 132-133: open(..., "w") can fail
WriteReport ==
    /\ pc = "write_report"
    /\ \E ok \in BOOLEAN :
        IF ok
        THEN /\ files' = files \cup {"project_stats.txt"}
             /\ pc' = "histogram"
             /\ error' = error
        ELSE Abort("OSError") /\ files' = files
    /\ UNCHANGED <<url, html, scoreboard_df, date_and_time, stats, hist, phases_count,
                   phases_df>>

\* lines 139-162: the histogram of the scores, then plt.savefig, which can fail
Histogram ==
    /\ pc = "histogram"
    /\ hist' = HistCounts(scoreboard_df)
    /\ \E ok \in BOOLEAN :
        IF ok
        THEN /\ files' = files \cup {"scores_histogram.png"}
             /\ pc' = "passed_phases"
             /\ error' = error
        ELSE Abort("OSError") /\ files' = files
    /\ UNCHANGED <<url, html, scoreboard_df, date_and_time, stats, phases_count, phases_df>>

\* faulty variant: the loop that drops rows runs before the histogram is rendered
PassedPhaseLoopEarly ==
    /\ pc \in {"histogram", "passed_phases"}
    /\ Len(phases_count) < 5
    /\ LET p == 5 - Len(phases_count)
       IN  /\ phases_count' = Append(phases_count, PassedCount(scoreboard_df, p))
           /\ scoreboard_df' = DropPassed(scoreboard_df, p)
    /\ UNCHANGED <<pc, url, html, date_and_time, stats, files, hist, phases_df, error>>

\* lines 174-180, one pass of the loop: phases[::-1] gives Phase 5 first
PassedPhaseLoop ==
    /\ pc = "passed_phases"
    /\ Len(phases_count) < 5
    /\ LET p == 5 - Len(phases_count)
       IN  /\ phases_count' = Append(phases_count, PassedCount(scoreboard_df, p))
           /\ scoreboard_df' = DropPassed(scoreboard_df, p)
    /\ UNCHANGED <<pc, url, html, date_and_time, stats, files, hist, phases_df, error>>

\* lines 183-211: phases_count[::-1] gives the counts in phase order
Barplot ==
    /\ pc = "passed_phases"
    /\ Len(phases_count) = 5
    /\ phases_df' = <<[Count |-> [p \in phases |-> phases_count[6 - p]],
                       Sum   |-> SumSeq(phases_count)]>>
    /\ \E ok \in BOOLEAN :
        IF ok
        THEN /\ files' = files \cup {"phases_barplot.png"}
             /\ pc' = "exit"
             /\ error' = error
        ELSE Abort("OSError") /\ files' = files
    /\ UNCHANGED <<url, html, scoreboard_df, date_and_time, stats, hist, phases_count>>

Next ==
    \/ CheckUrl
    \/ Fetch
    \/ Validate
    \/ ReadHtml
    \/ NormalizeStep
    \/ CastScoreStep
    \/ Timestamp
    \/ PhaseStats
    \/ Totals
    \/ StandardStats
    \/ WriteReport
    \/ Histogram
    \/ PassedPhaseLoop
    \/ Barplot

Spec == Init /\ [][Next]_vars

(***************************************************************************)
(* The same statements from the table extraction to the per-phase          *)
(* statistics, over every one-column scoreboard.                           *)
(***************************************************************************)
InitColumn ==
    /\ pc = "read_html"
    /\ url = "http://systems3.cs.uic.edu:15513/scoreboard"
    /\ html \in {d \in Docs(ColumnTables) : d.title /\ d.updated \notin {"absent", "malformed"}}
    /\ scoreboard_df = <<>>
    /\ date_and_time = ""
    /\ stats = NoStats
    /\ files = {}
    /\ hist = <<>>
    /\ phases_count = <<>>
    /\ phases_df = <<>>
    /\ error = "none"

NextColumn ==
    \/ ReadHtml
    \/ NormalizeStep
    \/ CastScoreStep
    \/ Timestamp
    \/ PhaseStats

SpecColumn == InitColumn /\ [][NextColumn]_vars

(***************************************************************************)
(* Properties.                                                             *)
(***************************************************************************)
ReportFile == "project_stats.txt"
HistogramFile == "scores_histogram.png"
BarplotFile == "phases_barplot.png"
AllFiles == {ReportFile, HistogramFile, BarplotFile}

\* the table has been read and the run is at or past the given statement
TableRead == html.fetched /\ html.title /\ html.matching >= 1
                /\ pc \notin {"validate", "read_html"}

\* the complete normalized row set of the page (phase cells)
NormalizedRows == Normalize(read_html(html.table))

\* a row passes a phase with full or penalized credit
RowPasses(row, p) ==
    row.Phase[p].s = points_per_phase[p] \/ row.Phase[p].s = Penalized

\* the highest-numbered phase a row passes, 0 when it passes none
Furthest(row) ==
    IF \E p \in phases : RowPasses(row, p)
    THEN CHOOSE p \in phases : RowPasses(row, p) /\ \A q \in phases : RowPasses(row, q) => q <= p
    ELSE 0

\* C1: after the loop over Phase 5 down to Phase 1, the count recorded for
\* phase k is the number of rows whose highest passed phase (full or
\* penalized credit) is k.
C1_FurthestPhaseCounts ==
    phases_df # <<>> =>
        \A k \in phases :
            phases_df[1].Count[k] =
                Cardinality({i \in 1..Len(NormalizedRows) : Furthest(NormalizedRows[i]) = k})

\* C2: the five furthest-phase counts sum to the number of entrants minus the
\* entrants that passed no phase, and the rows left in the pool after the
\* loop are exactly the entrants that passed no phase.
C2_CountsSumToPassers ==
    phases_df # <<>> =>
        LET none(row) == Furthest(row) = 0
        IN  /\ phases_df[1].Sum =
                  Len(NormalizedRows) - Len(SelectSeq(NormalizedRows, none))
            /\ Len(scoreboard_df) = Len(SelectSeq(NormalizedRows, none))
            /\ \A i \in 1..Len(scoreboard_df) : none(scoreboard_df[i])

\* C3: for each phase the counts of the five categories sum to the number of
\* entrants, and the reported passed number is the full-credit count plus the
\* Penalized count.
C3_PhasePartition ==
    stats.phases # <<>> =>
        /\ stats.targets = Len(html.table)
        /\ \A k \in 1..5 :
            LET line == stats.phases[k]
            IN  /\ line.phase = 6 - k
                /\ line.ser.full + line.ser.zero + line.ser.penalized
                     + line.ser.late + line.ser.invalid = stats.targets
                /\ line.passed = line.ser.full + line.ser.penalized

\* C3 witness: a column read as floats with a full-credit, a penalized and a
\* zero cell has been counted.
C3_Witness ==
    /\ stats.phases # <<>>
    /\ \E k \in 1..4 :
         /\ ColumnKind([i \in 1..Len(html.table) |-> html.table[i].Phase[6 - k]]) = "float64"
         /\ stats.phases[k].ser.full > 0
         /\ stats.phases[k].ser.penalized > 0
         /\ stats.phases[k].ser.zero > 0

\* C4: a cell of a phase column is "Penalized" after normalisation exactly
\* when the page's cell is the penalized-credit value of that phase, whether
\* the column was read as numbers or as text; the numeric text never remains.
C4_PenalizedRelabelled ==
    (TableRead /\ pc # "normalize") =>
        /\ Len(scoreboard_df) = Len(html.table)
        /\ \A i \in 1..Len(scoreboard_df) : \A p \in phases :
            /\ (html.table[i].Phase[p] = str_penalized_points_per_phase[p])
                  <=> (scoreboard_df[i].Phase[p].s = Penalized)
            /\ scoreboard_df[i].Phase[p].s # str_penalized_points_per_phase[p]

\* C4 witness: a penalized cell of a column read as text, beside an Invalid
\* cell, has been normalised.
C4_Witness ==
    /\ TableRead /\ pc = "cast_score"
    /\ \E i \in 1..Len(html.table) : \E p \in phases :
         /\ html.table[i].Phase[p] = str_penalized_points_per_phase[p]
         /\ ColumnKind([j \in 1..Len(html.table) |-> html.table[j].Phase[p]]) = "object"
         /\ \E j \in 1..Len(html.table) : html.table[j].Phase[p] = Invalid

\* C5: with no entrant or exactly one entrant the run ends in an error and
\* writes no report.
C5_SmallSetsFail ==
    (stats.phases # <<>> /\ stats.targets <= 1) =>
        /\ ReportFile \notin files
        /\ (pc = "exit" => error # "none")

\* C6: at termination either all three files have been written or none.
C6_AllOrNothing ==
    pc = "exit" => (files = {} \/ files = AllFiles)

\* C7: a page without the last-updated marker does not abort the run, and the
\* report header carries an "unknown" placeholder.
C7_MissingTimestampSoft ==
    (html.fetched /\ html.title /\ html.updated = "absent") =>
        /\ error # "AttributeError: 'NoneType' object has no attribute 'group'"
        /\ (ReportFile \in files => stats.header = "unknown")

C9_TotalsAlwaysReported ==
    (stats.phases # <<>> /\ stats.targets >= 1) =>
        /\ error # "KeyError"
        /\ stats.totals # <<>> =>
              /\ stats.totals[1] = SumSeq([k \in 1..5 |-> stats.phases[k].penalized])
              /\ stats.totals[2] = SumSeq([k \in 1..5 |-> stats.phases[k].late])
              /\ stats.totals[3] = SumSeq([k \in 1..5 |-> stats.phases[k].invalid])

\* C10: no row leaves the row collection before the report is written and the
\* histogram is saved, and the statistics and the histogram are computed over
\* the complete normalized row set.
C10_DropIsLast ==
    /\ (phases_count # <<>> \/ (TableRead /\ Len(scoreboard_df) # Len(html.table)))
          => {ReportFile, HistogramFile} \subseteq files
    /\ stats.standard # <<>> =>
          /\ stats.targets = Len(html.table)
          /\ stats.standard[1] = Standard(CastScore(NormalizedRows))
    /\ hist # <<>> => hist = HistCounts(CastScore(NormalizedRows))

\* C10 witness: a run has ended after the loop removed rows.
C10_Witness ==
    /\ pc = "exit" /\ error = "none"
    /\ Len(scoreboard_df) < Len(html.table)
    /\ phases_df # <<>>

====
